---- MODULE Spec2Model ----
(***************************************************************************)
(* Session context, transaction scopes and user store of the               *)
(* authentication backend (bil_hh_agent).                                  *)
(*                                                                         *)
(* A context (Ctx) is one asyncio task context: the ContextVar of          *)
(* DBContext holds one value per context.  Every `await` on storage        *)
(* (execute, commit, rollback, close) is a step of its own, so that the    *)
(* contexts interleave exactly where the event loop can switch tasks.      *)
(***************************************************************************)
EXTENDS Integers, Sequences, FiniteSets, TLC

\* ------------------------------------------------------------------ bounds
MaxSessions == 2        \* calls of the session factory in one run
MaxSaves == 2           \* UserRepository.save calls in one run
MaxDepth == 2           \* nesting depth of transaction scopes
MaxCancels == 1         \* interrupted closes of one session
MaxCalls == 3           \* PostgresEngine calls in one run

\* ------------------------------------------------------------ value sets
Ctx == {"c1", "c2"}
None == 0                                   \* ContextVar default (no session)
Usernames == {"alice", "bob"}
Emails == {"a@x.com", "b@x.com"}
Accounts == {<<"alice", "h1">>, <<"bob", "h2">>}   \* username, password hash
Errors == {"SQLAlchemyError", "Exception", "TypeError"}
Funcs == {"op", "register"}

VARIABLES
    cell,       \* ContextVar value of the DBContext, per context
    sessions,   \* sessions made by the factory; the index is the handle
    stack,      \* per context: the open scopes (transaction wrapper, dispatch)
    pend,       \* per context: the statement awaiting session.execute
    ret,        \* per context: value returned by the last repository call
    db,         \* committed rows of table users
    clock,      \* datetime.now() readings taken so far
    nextId,     \* uuid4 values drawn so far
    epoch,      \* per context: get_session results since the last detach
    last,       \* per context: the scope it has just left (cleared by its next step)
    lastSave,   \* per email: the last save whose effect is still in the store
    prevSave,   \* per context: lastSave of the email as its last save found it
    call,       \* per context: the AuthService call in progress or just finished
    service     \* the AuthService as constructed: user_repo, jwt_expires_minutes

vars == <<cell, sessions, stack, pend, ret, db, clock, nextId,
          epoch, last, lastSave, prevSave, call, service>>

\* ------------------------------------------------------------- exceptions
IsSQLAlchemyError(e) == e = "SQLAlchemyError"

IsException(e) == e \in Errors

\* -------------------------------------------------------------- DBContext
Handles == 1..Len(sessions)

get_current_session(cells, c) == cells[c]

\* a module-level global in place of the ContextVar
set_current_session_global(cells, c, session) == [x \in DOMAIN cells |-> session]

set_current_session(cells, c, session) == [cells EXCEPT ![c] = session]

\* session_factory(): a new session, created in context c
session_factory(c) ==
    [creator |-> c, log |-> <<>>, writes |-> {}, saved |-> {}]

\* get_session without the `if session is None` test
get_session_always_new(cur, n) == [session |-> n + 1, created |-> TRUE]

\* get_session: the current session, or a new one (handle n + 1) that is stored
get_session(cur, n) ==
    IF cur = None
    THEN [session |-> n + 1, created |-> TRUE]
    ELSE [session |-> cur, created |-> FALSE]

\* reset that leaves the stored handle in place
reset_keep(cur) == cur

\* reset(): the value stored by reset
reset(cur) == None

MadeBy(c) == Cardinality({s \in Handles : sessions[s].creator = c})

CanMake(g) == g.created => Len(sessions) < MaxSessions

CellGet(c, g) ==
    IF g.created THEN set_current_session(cell, c, g.session) ELSE cell

SessionsGet(c, g) ==
    IF g.created THEN Append(sessions, session_factory(c)) ELSE sessions

EpochGet(c, g) ==
    [epoch EXCEPT ![c].handles = @ \cup {g.session},
                  ![c].factory = @ + (IF g.created THEN 1 ELSE 0)]

\* the stored handle is detached: a new run of get_session calls starts
EpochNew(c) ==
    [epoch EXCEPT ![c] = [handles |-> {}, factory |-> 0, stale |-> cell[c]]]

Top(c) == stack[c][Len(stack[c])]

\* the context is running plain code or the body of its innermost scope
CanStep(c) ==
    /\ pend[c] = <<>>
    /\ IF stack[c] = <<>> THEN TRUE ELSE Top(c).st = "body"

NoLast == [kind |-> "none", fn |-> "", session |-> None, created |-> FALSE,
           outcome |-> "", err |-> "", cellBefore |-> None, made |-> 0]

Forget(c) == [last EXCEPT ![c] = NoLast]

ForgetSave(c) == [prevSave EXCEPT ![c] = <<>>]

\* no AuthService call has been made in the scope
NoCall ==
    [op |-> "", st |-> "idle", username |-> "", email |-> "", password |-> "",
     fault |-> "", existing |-> <<>>, matched |-> 0, user |-> <<>>,
     saved |-> FALSE, verified |-> FALSE, out |-> "", body |-> <<>>, now |-> 0,
     minutes |-> 0, session |-> None, writes0 |-> {}, prev |-> <<>>,
     status |-> "", hit |-> None]

\* the user_repo of the service: the repository, or the double of the service
\* tests, whose return values carry password_hash
Repos == {"UserRepository", "AsyncMock"}

\* jwt_expires_minutes as passed to the constructor (None: not passed)
Configured == {None, 60}

JWT_EXPIRES_MINUTES == 1440

\* AuthService.__init__: jwt_expires_minutes: int = 1440
AuthService(user_repo, configured) ==
    [user_repo |-> user_repo, configured |-> configured,
     jwt_expires_minutes |->
        IF configured = None THEN JWT_EXPIRES_MINUTES ELSE configured]

\* create_app: AuthService(user_repo, jwt_expires_minutes=config.JWT_EXPIRES_MINUTES)
create_app == AuthService("UserRepository", JWT_EXPIRES_MINUTES)

\* the state after construction, whatever the service
Constructed ==
    /\ cell = [c \in Ctx |-> None]
    /\ sessions = <<>>
    /\ stack = [c \in Ctx |-> <<>>]
    /\ pend = [c \in Ctx |-> <<>>]
    /\ ret = [c \in Ctx |-> <<>>]
    /\ db = {}
    /\ clock = 0
    /\ nextId = 0
    /\ epoch = [c \in Ctx |-> [handles |-> {}, factory |-> 0, stale |-> None]]
    /\ last = [c \in Ctx |-> NoLast]
    /\ lastSave = [e \in Emails |-> <<>>]
    /\ prevSave = [c \in Ctx |-> <<>>]
    /\ call = [c \in Ctx |-> NoCall]

Init ==
    /\ Constructed
    /\ service = create_app

\* the services of the service tests and of create_app
InitAuth ==
    /\ Constructed
    /\ \E user_repo \in Repos, configured \in Configured :
            service = AuthService(user_repo, configured)

\* DBContext.get_session called directly
GetSession(c) ==
    /\ CanStep(c)
    /\ LET g == get_session(get_current_session(cell, c), Len(sessions)) IN
        /\ CanMake(g)
        /\ cell' = CellGet(c, g)
        /\ sessions' = SessionsGet(c, g)
        /\ epoch' = EpochGet(c, g)
        /\ last' = [last EXCEPT ![c] =
                [NoLast EXCEPT !.kind = "get_session", !.session = g.session,
                    !.created = g.created, !.cellBefore = epoch[c].stale,
                    !.outcome = IF epoch[c].handles = {} THEN "first" ELSE "again"]]
    /\ prevSave' = ForgetSave(c)
    /\ UNCHANGED <<stack, pend, ret, db, clock,
                   nextId, lastSave, call, service>>

\* DBContext.reset called outside any scope
Reset(c) ==
    /\ CanStep(c)
    /\ stack[c] = <<>>
    /\ cell' = set_current_session(cell, c, reset(cell[c]))
    /\ epoch' = EpochNew(c)
    /\ last' = Forget(c)
    /\ prevSave' = ForgetSave(c)
    /\ UNCHANGED <<sessions, stack, pend, ret, db, clock,
                   nextId, lastSave, call, service>>

\* ---------------------------------------------------------------- sessions
\* a table in which a written row also replaces the rows of its username
Apply_unique_username(rows, writes) ==
    {r \in rows : \A w \in writes : w.user_uuid # r.user_uuid
                                    /\ w.username # r.username} \cup writes

\* rows of a session's open transaction replace the committed versions by key
Apply(rows, writes) ==
    {r \in rows : \A w \in writes : w.user_uuid # r.user_uuid} \cup writes

\* what a statement of session s reads: committed rows and its own writes
View(s) == Apply(db, sessions[s].writes)

\* AsyncSession.commit
Commit(ss, s) == [ss EXCEPT ![s].log = Append(@, "commit"), ![s].writes = {}]

\* AsyncSession.commit that raises: the transaction is lost
CommitFails(ss, s) == [ss EXCEPT ![s].log = Append(@, "commit"), ![s].writes = {}]

\* AsyncSession.rollback
Rollback(ss, s) == [ss EXCEPT ![s].log = Append(@, "rollback"), ![s].writes = {}]

\* AsyncSession.close: releases the connection, dropping an open transaction
Close(ss, s) == [ss EXCEPT ![s].log = Append(@, "close"), ![s].writes = {}]

\* AsyncSession.close left by CancelledError
CloseInterrupted(ss, s) == [ss EXCEPT ![s].log = Append(@, "close interrupted")]

\* the saves of session s are durable / have been dropped
Durable(ls, s) ==
    [e \in Emails |->
        IF ls[e] # <<>> /\ ls[e][1].session = s
        THEN <<[ls[e][1] EXCEPT !.committed = TRUE]>> ELSE ls[e]]

Dropped(ls, s) ==
    [e \in Emails |->
        IF ls[e] # <<>> /\ ls[e][1].session = s /\ ~ls[e][1].committed
        THEN <<>> ELSE ls[e]]

Count(log, x) == Cardinality({i \in 1..Len(log) : log[i] = x})

Before(log, x, y) ==
    \E i, j \in 1..Len(log) : i < j /\ log[i] = x /\ log[j] = y

\* ------------------------------------------------------------------ scopes
Pop(c) == SubSeq(stack[c], 1, Len(stack[c]) - 1)

\* an error or a cancellation leaving a scope reaches the enclosing body
Propagate(rest, f) ==
    IF rest = <<>> \/ f.st = "returning"
    THEN rest
    ELSE [rest EXCEPT ![Len(rest)].st = f.st, ![Len(rest)].err = f.err,
                      ![Len(rest)].resp = f.st]

Finished(c, f) ==
    [kind |-> f.kind, fn |-> f.fn, session |-> f.session, created |-> f.created,
     outcome |-> f.resp, err |-> f.err, cellBefore |-> f.cell0,
     made |-> MadeBy(c) - f.made0]

\* the wrapped function takes the session as its first positional argument;
\* the router's register(req) does not
accepts_session(f) == f = "op"

\* wrapper that takes the creating branch whatever the current session is
wrapper_owns_always(cur) == TRUE

\* wrapper: `if session is None`
wrapper_owns(cur) == cur = None

\* finally block without set_current_session(None)
wrapper_detach_keep(cur) == cur

\* wrapper, finally: set_current_session(None)
wrapper_detach(cur) == None

\* DBContext.transaction.wrapper up to the call of func
TxCall(c, f) ==
    /\ CanStep(c)
    /\ Len(stack[c]) < MaxDepth
    /\ IF stack[c] = <<>> THEN TRUE ELSE Top(c).kind \in {"tx", "req"}
    /\ LET cur == get_current_session(cell, c)
           owns == wrapper_owns(cur)
           g == IF owns THEN get_session(cur, Len(sessions))
                        ELSE [session |-> cur, created |-> FALSE]
       IN
        /\ CanMake(g)
        /\ sessions' = SessionsGet(c, g)
        /\ cell' = IF owns THEN set_current_session(CellGet(c, g), c, g.session)
                           ELSE cell
        /\ epoch' = IF owns THEN EpochGet(c, g) ELSE epoch
        /\ stack' = [stack EXCEPT ![c] = Append(@,
                [kind |-> "tx", fn |-> f, session |-> g.session, created |-> owns,
                 st |-> IF accepts_session(f) THEN "body" ELSE "raising",
                 err |-> IF accepts_session(f) THEN "" ELSE "TypeError",
                 resp |-> IF accepts_session(f) THEN "" ELSE "raising",
                 cell0 |-> cur, made0 |-> MadeBy(c)])]
    /\ last' = Forget(c)
    /\ prevSave' = ForgetSave(c)
    /\ UNCHANGED <<pend, ret, db, clock, nextId, lastSave, call, service>>

\* the body of the innermost scope returns
OpReturn(c) ==
    /\ CanStep(c)
    /\ stack[c] # <<>>
    /\ stack' = [stack EXCEPT ![c][Len(stack[c])].st = "returning",
                              ![c][Len(stack[c])].resp = "returning"]
    /\ last' = Forget(c)
    /\ prevSave' = ForgetSave(c)
    /\ UNCHANGED <<cell, sessions, pend, ret,
                   db, clock, nextId, epoch, lastSave, service>>

\* the body of the innermost scope raises e
OpRaise(c, e) ==
    /\ CanStep(c)
    /\ stack[c] # <<>>
    /\ stack' = [stack EXCEPT ![c][Len(stack[c])].st = "raising",
                              ![c][Len(stack[c])].err = e,
                              ![c][Len(stack[c])].resp = "raising"]
    /\ last' = Forget(c)
    /\ prevSave' = ForgetSave(c)
    /\ UNCHANGED <<cell, sessions, pend, ret,
                   db, clock, nextId, epoch, lastSave, service>>

\* the task is cancelled while the body of the innermost scope is suspended
Cancel(c) ==
    /\ CanStep(c)
    /\ stack[c] # <<>>
    /\ stack' = [stack EXCEPT ![c][Len(stack[c])].st = "cancelled",
                              ![c][Len(stack[c])].err = "CancelledError",
                              ![c][Len(stack[c])].resp = "cancelled"]
    /\ last' = Forget(c)
    /\ prevSave' = ForgetSave(c)
    /\ UNCHANGED <<cell, sessions, pend, ret,
                   db, clock, nextId, epoch, lastSave, call, service>>

\* DBContext.transaction.wrapper after func: the finally block, or the plain
\* return of the nested branch
TxExit(c) ==
    /\ pend[c] = <<>>
    /\ stack[c] # <<>>
    /\ Top(c).kind = "tx"
    /\ Top(c).st \in {"returning", "raising", "cancelled"}
    /\ LET f == Top(c)
           cells == IF f.created
                    THEN set_current_session(cell, c, wrapper_detach(cell[c]))
                    ELSE cell
       IN
        /\ cell' = cells
        /\ sessions' = IF f.created THEN Close(sessions, f.session) ELSE sessions
        /\ lastSave' = IF f.created THEN Dropped(lastSave, f.session) ELSE lastSave
        /\ epoch' = IF f.created THEN EpochNew(c) ELSE epoch
        /\ stack' = [stack EXCEPT ![c] = Propagate(Pop(c), f)]
        /\ last' = [last EXCEPT ![c] = Finished(c, f)]
    /\ prevSave' = ForgetSave(c)
    /\ UNCHANGED <<pend, ret, db, clock, nextId, call, service>>

\* ------------------------------------------------------------ TxMiddleware
\* dispatch without its `except Exception` clause
handler_for_sql_only(e) ==
    IF IsSQLAlchemyError(e) THEN "except SQLAlchemyError" ELSE "none"

\* the except clause of dispatch that catches e
handler_for(e) ==
    IF IsSQLAlchemyError(e) THEN "except SQLAlchemyError"
    ELSE IF IsException(e) THEN "except Exception"
    ELSE "none"

\* TxMiddleware.dispatch up to call_next
MwDispatch(c) ==
    /\ CanStep(c)
    /\ stack[c] = <<>>
    /\ LET cur == get_current_session(cell, c)
           g == get_session(cur, Len(sessions)) IN
        /\ CanMake(g)
        /\ sessions' = SessionsGet(c, g)
        /\ cell' = CellGet(c, g)
        /\ epoch' = EpochGet(c, g)
        /\ stack' = [stack EXCEPT ![c] = Append(@,
                [kind |-> "mw", fn |-> "call_next", session |-> g.session,
                 created |-> g.created, st |-> "body", err |-> "", resp |-> "",
                 cell0 |-> cur, made0 |-> MadeBy(c)])]
    /\ last' = Forget(c)
    /\ prevSave' = ForgetSave(c)
    /\ UNCHANGED <<pend, ret, db, clock, nextId, lastSave, call, service>>

\* dispatch: await session.commit() after call_next returned
MwCommit(c, ok) ==
    /\ stack[c] # <<>>
    /\ Top(c).kind = "mw"
    /\ Top(c).st = "returning"
    /\ LET s == Top(c).session IN
        IF ok
        THEN /\ db' = Apply(db, sessions[s].writes)
             /\ sessions' = Commit(sessions, s)
             /\ lastSave' = Durable(lastSave, s)
             /\ stack' = [stack EXCEPT ![c][Len(stack[c])].st = "committed"]
        ELSE /\ db' = db
             /\ sessions' = CommitFails(sessions, s)
             /\ lastSave' = Dropped(lastSave, s)
             /\ stack' = [stack EXCEPT ![c][Len(stack[c])].st = "raising",
                             ![c][Len(stack[c])].err = "SQLAlchemyError"]
    /\ last' = Forget(c)
    /\ prevSave' = ForgetSave(c)
    /\ UNCHANGED <<cell, pend, ret, clock, nextId, epoch, call, service>>

\* dispatch: an except clause: await session.rollback(); raise
MwRollback(c) ==
    /\ stack[c] # <<>>
    /\ Top(c).kind = "mw"
    /\ Top(c).st = "raising"
    /\ handler_for(Top(c).err) # "none"
    /\ sessions' = Rollback(sessions, Top(c).session)
    /\ lastSave' = Dropped(lastSave, Top(c).session)
    /\ stack' = [stack EXCEPT ![c][Len(stack[c])].st = "reraising"]
    /\ last' = Forget(c)
    /\ prevSave' = ForgetSave(c)
    /\ UNCHANGED <<cell, pend, ret, db, clock, nextId, epoch, call, service>>

\* dispatch, finally: await session.close(); self.db_context.reset()
MwFinally(c) ==
    /\ stack[c] # <<>>
    /\ Top(c).kind = "mw"
    /\ IF Top(c).st = "raising"
       THEN handler_for(Top(c).err) = "none"
       ELSE Top(c).st \in {"committed", "reraising", "cancelled"}
    /\ LET f == Top(c)
           cells == set_current_session(cell, c, reset(cell[c]))
       IN
        /\ sessions' = Close(sessions, f.session)
        /\ lastSave' = Dropped(lastSave, f.session)
        /\ cell' = cells
        /\ epoch' = EpochNew(c)
        /\ stack' = [stack EXCEPT ![c] = Pop(c)]
        /\ last' = [last EXCEPT ![c] = Finished(c, f)]
    /\ prevSave' = ForgetSave(c)
    /\ UNCHANGED <<pend, ret, db, clock, nextId, call, service>>

\* the task is cancelled while the exit path of the innermost scope is
\* suspended in `await session.close()`: CancelledError leaves the finally
\* block there. The wrapper has already stored None; dispatch has not yet
\* called reset. Whether the connection was released before is open.
CancelClose(c, released) ==
    /\ pend[c] = <<>>
    /\ stack[c] # <<>>
    /\ LET f == Top(c) IN
        /\ Count(sessions[f.session].log, "close interrupted") < MaxCancels
        /\ IF f.kind = "tx"
           THEN f.created /\ f.st \in {"returning", "raising", "cancelled"}
           ELSE /\ f.kind = "mw"
                /\ IF f.st = "raising" THEN handler_for(f.err) = "none"
                   ELSE f.st \in {"committed", "reraising", "cancelled"}
        /\ LET g == [f EXCEPT !.st = "cancelled", !.err = "CancelledError",
                              !.resp = "cancelled"]
           IN
            /\ cell' = IF f.kind = "tx"
                       THEN set_current_session(cell, c, wrapper_detach(cell[c]))
                       ELSE cell
            /\ epoch' = IF f.kind = "tx" THEN EpochNew(c) ELSE epoch
            /\ sessions' = CloseInterrupted(
                    IF released THEN Close(sessions, f.session) ELSE sessions,
                    f.session)
            /\ lastSave' = IF released THEN Dropped(lastSave, f.session) ELSE lastSave
            /\ stack' = [stack EXCEPT ![c] = Propagate(Pop(c), g)]
            /\ last' = [last EXCEPT ![c] = Finished(c, g)]
    /\ prevSave' = ForgetSave(c)
    /\ UNCHANGED <<pend, ret, db, clock, nextId, call, service>>

\* ---------------------------------------------------------- UserRepository
\* email without its unique index: nothing to wait for
RowLocked_never(s, e) == FALSE

\* another session's open transaction holds the unique-index entry of email e
RowLocked(s, e) ==
    \E t \in Handles \ {s} : \E w \in sessions[t].writes : w.email = e

\* an insert without its ON CONFLICT clause
conflict_rows_none(rows, email) == {}

\* on_conflict_do_update(index_elements=[UserDB.email]): the rows in conflict
conflict_rows(rows, email) == {r \in rows : r.email = email}

\* insert(UserDB).values(...): the proposed row
insert_values(p, id) ==
    [user_uuid |-> id, username |-> p.username, password_hash |-> p.password_hash,
     email |-> p.email, created_at |-> p.now, updated_at |-> p.now]

\* set_ that also overwrites created_at
on_conflict_do_update_all(r, p) ==
    [r EXCEPT !.username = p.username, !.password_hash = p.password_hash,
              !.updated_at = p.now, !.created_at = p.now]

\* on_conflict_do_update(set_={username, password_hash, updated_at})
on_conflict_do_update(r, p) ==
    [r EXCEPT !.username = p.username, !.password_hash = p.password_hash,
              !.updated_at = p.now]

\* the row the statement of save leaves in the table
Upsert(rows, p, id) ==
    LET hit == conflict_rows(rows, p.email) IN
    IF hit = {} THEN insert_values(p, id)
    ELSE on_conflict_do_update(CHOOSE r \in hit : TRUE, p)

\* the dict that save and get_by_username return
user_dict(r) ==
    [user_uuid |-> r.user_uuid, username |-> r.username, email |-> r.email,
     created_at |-> r.created_at, updated_at |-> r.updated_at]

\* a select that finds no row
select_by_username_none(rows, u) == {}

\* select(UserDB).where(UserDB.username == username)
select_by_username(rows, u) == {r \in rows : r.username = u}

\* a repository method without its except clause
repository_except_nothing(e) == FALSE

\* `except SQLAlchemyError` of save and get_by_username catches e
repository_except(e) == IsSQLAlchemyError(e)

\* what a repository method hands its caller when its statement raised e:
\* None from the except clause, or the exception itself
OnError(e) == IF repository_except(e) THEN <<>> ELSE <<[raised |-> e]>>

Raised(r) == r # <<>> /\ "raised" \in DOMAIN r[1]

\* UserRepository.save, called in a scope, up to `await session.execute(stmt)`
SaveBegin(c, u, h, e) ==
    /\ CanStep(c)
    /\ stack[c] # <<>>
    /\ clock < MaxSaves
    /\ LET g == get_session(get_current_session(cell, c), Len(sessions)) IN
        /\ CanMake(g)
        /\ cell' = CellGet(c, g)
        /\ sessions' = SessionsGet(c, g)
        /\ epoch' = EpochGet(c, g)
        /\ pend' = [pend EXCEPT ![c] =
                <<[username |-> u, password_hash |-> h, email |-> e,
                   now |-> clock + 1, session |-> g.session]>>]
    /\ clock' = clock + 1
    /\ last' = Forget(c)
    /\ prevSave' = ForgetSave(c)
    /\ UNCHANGED <<stack, ret, db, nextId, lastSave, service>>

\* UserRepository.save from session.execute on: the statement runs and the row
\* is returned, or SQLAlchemyError is caught and None returned
SaveExec(c, fault) ==
    /\ pend[c] # <<>>
    /\ LET p == pend[c][1]
           s == p.session
           row == Upsert(View(s), p, nextId + 1)
       IN
        IF fault
        THEN /\ ret' = [ret EXCEPT ![c] = OnError("SQLAlchemyError")]
             /\ prevSave' = ForgetSave(c)
             /\ UNCHANGED <<sessions, nextId, lastSave>>
        ELSE /\ ~RowLocked(s, p.email)
             /\ sessions' = [sessions EXCEPT ![s].writes = Apply(@, {row}),
                                             ![s].saved = @ \cup {p.email}]
             /\ nextId' = nextId + 1
             /\ ret' = [ret EXCEPT ![c] = <<user_dict(row)>>]
             /\ prevSave' = [prevSave EXCEPT ![c] =
                    IF lastSave[p.email] = <<>> THEN <<>>
                    ELSE <<[first |-> lastSave[p.email][1], second |-> p]>>]
             /\ lastSave' = [lastSave EXCEPT ![p.email] =
                    <<[session |-> s, username |-> p.username,
                       user_uuid |-> row.user_uuid, created_at |-> row.created_at,
                       committed |-> FALSE]>>]
    /\ pend' = [pend EXCEPT ![c] = <<>>]
    /\ last' = Forget(c)
    /\ UNCHANGED <<cell, stack, db, clock, epoch, service>>

\* UserRepository.get_by_username: scalar_one_or_none raises MultipleResultsFound
\* (an SQLAlchemyError) when more than one row has the username
GetByUsername(c, u, fault) ==
    /\ CanStep(c)
    /\ LET g == get_session(get_current_session(cell, c), Len(sessions))
           ss == SessionsGet(c, g)
           rows == select_by_username(Apply(db, ss[g.session].writes), u)
       IN
        /\ CanMake(g)
        /\ cell' = CellGet(c, g)
        /\ sessions' = ss
        /\ epoch' = EpochGet(c, g)
        /\ ret' = [ret EXCEPT ![c] =
                IF fault \/ Cardinality(rows) > 1 THEN OnError("SQLAlchemyError")
                ELSE IF rows = {} THEN <<>>
                ELSE <<user_dict(CHOOSE r \in rows : TRUE)>>]
    /\ last' = Forget(c)
    /\ prevSave' = ForgetSave(c)
    /\ UNCHANGED <<stack, pend, db, clock, nextId, lastSave, service>>

\* ------------------------------------------------------------- AuthService
Passwords == {"p1", "p2"}

\* username and password of the registrations
Credentials == {<<"alice", "p1">>, <<"bob", "p2">>}

JWT_SECRET == "secret_jwt"

\* bcrypt.hashpw(password, salt), for the one salt of the run
hashpw(p) == IF p = "p1" THEN "h1" ELSE "h2"

\* bcrypt.checkpw(password, hashed)
checkpw(p, h) == hashpw(p) = h

\* the return value of the double: the user and its password_hash
AsyncMock_return_value(d, rows) ==
    [f \in DOMAIN d \cup {"password_hash"} |->
        IF f = "password_hash"
        THEN (CHOOSE r \in rows : r.user_uuid = d.user_uuid).password_hash
        ELSE d[f]]

\* what the service receives from user_repo
Received(repo, r, rows) ==
    IF r = <<>> \/ Raised(r) \/ repo = "UserRepository" THEN r
    ELSE <<AsyncMock_return_value(r[1], rows)>>

\* register without its `if existing_user` test
register_conflict_never(existing) == FALSE

\* register: `if existing_user`
register_conflict(existing) == existing # <<>>

\* register without its `if not user` test
register_failed_never(user) == FALSE

\* register: `if not user`
register_failed(user) == user = <<>>

RegisterResponseFields ==
    {"user_uuid", "username", "email", "created_at", "updated_at"}

\* a response model that keeps the extra keys of the dict
RegisterResponse_extra_allow(user) == user

\* RegisterResponse(**user): the declared fields, extra keys ignored
RegisterResponse(user) ==
    [f \in RegisterResponseFields |-> IF f \in DOMAIN user THEN user[f] ELSE None]

\* login that takes a failed lookup for a user
login_missing_never(user) == FALSE

\* login: `if not user`
login_missing(user) == user = <<>>

\* get_by_username: `if user is None: return None`
NotFound == <<>>


\* a payload that expires at issuance
token_payload_no_delta(user, now, minutes) ==
    [user_uuid |-> user.user_uuid, exp |-> now]

\* login: payload = {user_uuid, exp: now + timedelta(minutes=...)}
token_payload(user, now, minutes) ==
    [user_uuid |-> user.user_uuid, exp |-> now + minutes]

\* jwt.encode / jwt.decode
jwt_encode(payload, secret) == [payload |-> payload, signature |-> secret]

jwt_decode(token, secret) ==
    IF token.signature = secret THEN <<token.payload>> ELSE <<>>

\* what login does with the looked-up user
login_outcome(user, p) ==
    IF Raised(user) THEN user[1].raised
    ELSE IF login_missing(user) THEN "HTTP_404_NOT_FOUND"
    ELSE IF user = <<>> \/ "password_hash" \notin DOMAIN user[1] THEN "KeyError"
    ELSE IF ~checkpw(p, user[1].password_hash) THEN "HTTP_401_UNAUTHORIZED"
    ELSE "LoginResponse"

\* no service call is running in the context
AuthIdle(c) == call[c].st \in {"idle", "done"}

\* the registration that has just succeeded in the context, if any
Registered(k) ==
    IF k.st = "done" /\ k.op = "register" /\ k.out = "RegisterResponse"
    THEN <<[username |-> k.username, password |-> k.password,
            user_uuid |-> k.body[1].user_uuid]>>
    ELSE <<>>

\* AuthService.register up to the call of save
Register(c, u, e, p, fault) ==
    /\ AuthIdle(c)
    /\ stack[c] # <<>>
    /\ clock < MaxSaves
    /\ GetByUsername(c, u, fault)
    /\ LET s == cell'[c]
           rows == select_by_username(Apply(db, sessions'[s].writes), u)
           existing == Received(service.user_repo, ret'[c], rows)
           over == Raised(existing) \/ register_conflict(existing)
       IN call' = [call EXCEPT ![c] =
            [NoCall EXCEPT !.op = "register", !.username = u, !.email = e,
                !.password = p,
                !.fault = IF fault THEN "lookup" ELSE "",
                !.existing = existing, !.matched = Cardinality(rows),
                !.session = s, !.writes0 = sessions'[s].writes,
                !.hit = IF fault \/ Cardinality(rows) > 1 THEN s ELSE call[c].hit,
                !.st = IF over THEN "done" ELSE "free",
                !.out = IF Raised(existing) THEN existing[1].raised
                        ELSE IF over THEN "HTTP_409_CONFLICT" ELSE ""]]

\* register: hashpw and the call of save, up to session.execute
RegisterSave(c) ==
    /\ call[c].st = "free"
    /\ SaveBegin(c, call[c].username, hashpw(call[c].password), call[c].email)
    /\ call' = [call EXCEPT ![c].st = "saving", ![c].saved = TRUE]

\* register from the return of save on
RegisterEnd(c, fault) ==
    /\ call[c].st = "saving"
    /\ SaveExec(c, fault)
    /\ LET k == call[c]
           user == Received(service.user_repo, ret'[c], Apply(db, sessions'[k.session].writes))
           out == IF Raised(user) THEN user[1].raised
                  ELSE IF register_failed(user) THEN "HTTP_500_INTERNAL_SERVER_ERROR"
                  ELSE "RegisterResponse"
       IN call' = [call EXCEPT ![c].st = "done", ![c].user = user,
                        ![c].fault = IF fault THEN "save" ELSE k.fault,
                        ![c].hit = IF fault THEN k.session ELSE k.hit,
                        ![c].out = out,
                        ![c].body = IF user = <<>> \/ Raised(user) THEN <<>>
                                    ELSE <<RegisterResponse(user[1])>>]

\* AuthService.login
Login(c, u, p, fault) ==
    /\ AuthIdle(c)
    /\ stack[c] # <<>>
    /\ GetByUsername(c, u, fault)
    /\ LET s == cell'[c]
           rows == select_by_username(Apply(db, sessions'[s].writes), u)
           user == Received(service.user_repo, ret'[c], rows)
           out == login_outcome(user, p)
           minutes == service.jwt_expires_minutes
       IN call' = [call EXCEPT ![c] =
            [NoCall EXCEPT !.op = "login", !.username = u, !.password = p,
                !.fault = IF fault THEN "lookup" ELSE "",
                !.existing = user, !.matched = Cardinality(rows),
                !.session = s, !.writes0 = sessions'[s].writes,
                !.hit = IF fault \/ Cardinality(rows) > 1 THEN s ELSE call[c].hit,
                !.st = "done", !.out = out, !.now = clock, !.minutes = minutes,
                !.verified = out \in {"HTTP_401_UNAUTHORIZED", "LoginResponse"},
                !.body = IF out = "LoginResponse"
                         THEN <<jwt_encode(token_payload(user[1], clock, minutes),
                                           JWT_SECRET)>>
                         ELSE <<>>,
                !.prev = Registered(call[c])]]

\* the exceptions of a service call that are not HTTPException
Unhandled == {"KeyError", "SQLAlchemyError"}

\* the route handler returns: the result of the service, or FastAPI's response
\* to its HTTPException
HandlerReturn(c) ==
    /\ AuthIdle(c)
    /\ call[c].out \notin Unhandled
    /\ OpReturn(c)
    /\ call' = [call EXCEPT ![c] = [NoCall EXCEPT !.hit = call[c].hit]]

\* the route handler raises what the service raised
HandlerRaise(c) ==
    /\ call[c].st = "done"
    /\ call[c].out \in Unhandled
    /\ OpRaise(c, "Exception")
    /\ call' = [call EXCEPT ![c] = [NoCall EXCEPT !.hit = call[c].hit]]

\* ------------------------------------------------------------- requests
\* the routes of create_auth_router
Routes == {"register", "login"}

\* the context of a task that has just been given a request
Fresh(c) == stack[c] = <<>> /\ cell[c] = None /\ MadeBy(c) = 0

\* the route of the request the context is serving, "" when it is in a
\* scope of the route or serves none
Serving(c) ==
    IF stack[c] # <<>> /\ Top(c).kind = "req" /\ Top(c).st = "body"
    THEN Top(c).fn ELSE ""

\* the application built by create_app receives a request: no middleware of
\* it opens a session
RequestBegin(c, route) ==
    /\ Fresh(c)
    /\ stack' = [stack EXCEPT ![c] =
            <<[kind |-> "req", fn |-> route, session |-> None, created |-> FALSE,
               st |-> "body", err |-> "", resp |-> "", cell0 |-> cell[c],
               made0 |-> MadeBy(c)]>>]
    /\ last' = Forget(c)
    /\ prevSave' = ForgetSave(c)
    /\ UNCHANGED <<cell, sessions, pend, ret, db, clock, nextId, epoch,
                   lastSave, call, service>>

\* the route function has returned or raised: the response is sent
RequestEnd(c) ==
    /\ stack[c] # <<>>
    /\ Top(c).kind = "req"
    /\ Top(c).st \in {"returning", "raising"}
    /\ stack' = [stack EXCEPT ![c] = Pop(c)]
    /\ last' = [last EXCEPT ![c] = Finished(c, Top(c))]
    /\ prevSave' = ForgetSave(c)
    /\ UNCHANGED <<cell, sessions, pend, ret, db, clock, nextId, epoch,
                   lastSave, call, service>>

\* ---------------------------------------------------------- PostgresEngine
\* execute, select, select_one
Methods == {"execute", "select", "select_one"}

\* _get_session up to its yield: the session of _session_var, or a new one
\* (handle n + 1) that is stored in it
PostgresEngine_get_session(cur, n) ==
    IF cur # None
    THEN [session |-> cur, created |-> FALSE]
    ELSE [session |-> n + 1, created |-> TRUE]

\* the loop body leaves `async for` before the generator is exhausted: by the
\* return of select and select_one, or by an exception of session.execute
leaves_loop(method, raises) == method \in {"select", "select_one"} \/ raises

\* AsyncSession.flush
Flush(ss, s) == [ss EXCEPT ![s].log = Append(@, "flush")]

\* the generator that opened the session is left suspended at its yield
Abandon(ss, s) == [ss EXCEPT ![s].log = Append(@, "abandoned")]

\* one call of execute, select or select_one, from _get_session to its return
PgCall(c, method, to_commit, raises) ==
    /\ CanStep(c)
    /\ stack[c] = <<>>
    /\ clock < MaxCalls
    /\ LET cur == get_current_session(cell, c)
           g == PostgresEngine_get_session(cur, Len(sessions))
           s == g.session
           opened == SessionsGet(c, g)
           commits == method = "execute" /\ ~raises /\ to_commit
           ran == IF method = "execute" /\ ~raises
                  THEN IF to_commit THEN Commit(opened, s) ELSE Flush(opened, s)
                  ELSE opened
       IN
        /\ CanMake(g)
        /\ db' = IF commits THEN Apply(db, opened[s].writes) ELSE db
        /\ sessions' =
            IF ~g.created THEN ran
            ELSE IF leaves_loop(method, raises) THEN Abandon(ran, s)
            ELSE Close(ran, s)
        /\ cell' =
            IF g.created /\ leaves_loop(method, raises)
            THEN set_current_session(cell, c, s)
            ELSE cell
        /\ last' = [last EXCEPT ![c] =
                [NoLast EXCEPT !.kind = "pg", !.fn = method, !.session = s,
                    !.created = g.created, !.cellBefore = cur,
                    !.outcome = IF raises THEN "raising" ELSE "returning",
                    !.err = IF raises THEN "SQLAlchemyError" ELSE ""]]
    /\ clock' = clock + 1
    /\ prevSave' = ForgetSave(c)
    /\ UNCHANGED <<stack, pend, ret, nextId, epoch, lastSave, call, service>>

\* the event loop finalizes an abandoned generator in a task of its own:
\* _session_var.reset(token) raises ValueError there, and the exit of
\* `async with` closes the session; the variable of the caller is untouched
PgFinalize(s) ==
    /\ s \in Handles
    /\ Count(sessions[s].log, "abandoned") = 1
    /\ Count(sessions[s].log, "close") = 0
    /\ sessions' = Close(sessions, s)
    /\ UNCHANGED <<cell, stack, pend, ret, db, clock, nextId, epoch, last,
                   lastSave, prevSave, call, service>>

\* ------------------------------------------------------------ auth router
\* the exception classes of backend.services.auth, and one that is no AuthError
AuthErrors ==
    {"AuthError", "UserAlreadyExistsError", "UserNotFoundError",
     "InvalidPasswordError"}

\* what the awaited service method does: it returns, or raises the exception
ServiceOutcomes == {"returns"} \cup AuthErrors \cup {"KeyError"}

Handlers == {"register_handler", "login_handler"}

\* issubclass(e, cls)
issubclass(e, cls) == e = cls \/ (cls = "AuthError" /\ e \in AuthErrors)

\* handlers whose `except AuthError` clause comes first
except_clauses_generic_first(handler) ==
    IF handler = "register_handler"
    THEN << <<"AuthError", "HTTP_500_INTERNAL_SERVER_ERROR">>,
            <<"UserAlreadyExistsError", "HTTP_409_CONFLICT">> >>
    ELSE << <<"AuthError", "HTTP_500_INTERNAL_SERVER_ERROR">>,
            <<"UserNotFoundError", "HTTP_404_NOT_FOUND">>,
            <<"InvalidPasswordError", "HTTP_401_UNAUTHORIZED">> >>

\* the except clauses of a handler, in the order of the source
except_clauses(handler) ==
    IF handler = "register_handler"
    THEN << <<"UserAlreadyExistsError", "HTTP_409_CONFLICT">>,
            <<"AuthError", "HTTP_500_INTERNAL_SERVER_ERROR">> >>
    ELSE << <<"UserNotFoundError", "HTTP_404_NOT_FOUND">>,
            <<"InvalidPasswordError", "HTTP_401_UNAUTHORIZED">>,
            <<"AuthError", "HTTP_500_INTERNAL_SERVER_ERROR">> >>

\* try/except: the first clause whose class the exception is an instance of
handler_status(handler, outcome) ==
    LET clauses == except_clauses(handler)
        hits == {i \in 1..Len(clauses) : issubclass(outcome, clauses[i][1])}
    IN  IF outcome = "returns" THEN "HTTP_200_OK"
        ELSE IF hits = {} THEN "propagates"
        ELSE clauses[CHOOSE i \in hits : \A j \in hits : i <= j][2]

\* everything but the service call of the context
NoStore == <<cell, sessions, stack, pend, ret, db, clock, nextId,
             epoch, last, lastSave, prevSave, service>>

\* a handler of the router awaits the service method
RouterCall(c, handler, outcome) ==
    /\ call[c].st = "idle"
    /\ call' = [call EXCEPT ![c] =
            [NoCall EXCEPT !.op = handler, !.st = "awaiting", !.out = outcome]]
    /\ UNCHANGED NoStore

\* the service method has returned or raised: the handler returns its
\* response or raises HTTPException
RouterRespond(c) ==
    /\ call[c].st = "awaiting"
    /\ call' = [call EXCEPT ![c].st = "done",
                    ![c].status = handler_status(call[c].op, call[c].out)]
    /\ UNCHANGED NoStore

\* the response has been sent
RouterDone(c) ==
    /\ call[c].st = "done"
    /\ call[c].op \in Handlers
    /\ call' = [call EXCEPT ![c] = NoCall]
    /\ UNCHANGED NoStore

\* ---------------------------------------------------------- specifications
\* the session context and its scopes
Next ==
    \E c \in Ctx :
        \/ GetSession(c)
        \/ Reset(c)
        \/ \E f \in Funcs : TxCall(c, f)
        \/ OpReturn(c) /\ UNCHANGED call
        \/ \E e \in Errors \ {"TypeError"} : OpRaise(c, e) /\ UNCHANGED call
        \/ Cancel(c)
        \/ TxExit(c)
        \/ MwDispatch(c)
        \/ \E ok \in BOOLEAN : MwCommit(c, ok)
        \/ MwRollback(c)
        \/ MwFinally(c)

Spec == Init /\ [][Next]_vars

\* the user store under the committing scope
NextStore ==
    \E c \in Ctx :
        \/ \E a \in Accounts, e \in Emails :
                SaveBegin(c, a[1], a[2], e) /\ UNCHANGED call
        \/ \E fault \in BOOLEAN : SaveExec(c, fault) /\ UNCHANGED call
        \/ MwDispatch(c)
        \/ OpReturn(c) /\ UNCHANGED call
        \/ \E ok \in BOOLEAN : MwCommit(c, ok)
        \/ MwRollback(c)
        \/ MwFinally(c)

SpecStore == Init /\ [][NextStore]_vars

\* the context of the requests that are served one after the other
Sequential == {"c1"}

\* the authentication service on the user store, under the committing scope,
\* one request at a time
NextAuth ==
    \E c \in Sequential :
        \/ \E a \in Credentials, e \in Emails, fault \in BOOLEAN :
                Register(c, a[1], e, a[2], fault)
        \/ RegisterSave(c)
        \/ \E fault \in BOOLEAN : RegisterEnd(c, fault)
        \/ \E u \in Usernames, p \in Passwords, fault \in BOOLEAN :
                Login(c, u, p, fault)
        \/ MwDispatch(c)
        \/ HandlerReturn(c)
        \/ HandlerRaise(c)
        \/ MwCommit(c, TRUE)
        \/ MwRollback(c)
        \/ MwFinally(c)

SpecAuth == InitAuth /\ [][NextAuth]_vars

\* concurrent AuthService.register calls, each in its request scope, no faults
NextRace ==
    \E c \in Ctx :
        \/ MwDispatch(c)
        \/ \E a \in Credentials, e \in Emails : Register(c, a[1], e, a[2], FALSE)
        \/ RegisterSave(c)
        \/ RegisterEnd(c, FALSE)
        \/ HandlerReturn(c)
        \/ MwCommit(c, TRUE)
        \/ MwFinally(c)

SpecRace == Init /\ [][NextRace]_vars

\* transaction scopes whose task can be cancelled at any await
NextCancel ==
    \E c \in Ctx :
        \/ \E f \in Funcs : TxCall(c, f)
        \/ OpReturn(c) /\ UNCHANGED call
        \/ \E e \in Errors \ {"TypeError"} : OpRaise(c, e) /\ UNCHANGED call
        \/ Cancel(c)
        \/ TxExit(c)
        \/ MwDispatch(c)
        \/ \E ok \in BOOLEAN : MwCommit(c, ok)
        \/ MwRollback(c)
        \/ MwFinally(c)
        \/ \E released \in BOOLEAN : CancelClose(c, released)

SpecCancel == Init /\ [][NextCancel]_vars

\* the application built by create_app, one request per context
NextApp ==
    \E c \in Ctx :
        \/ \E route \in Routes : RequestBegin(c, route)
        \/ Serving(c) = "register" /\ TxCall(c, "register")
        \/ TxExit(c)
        \/ \E u \in Usernames, p \in Passwords, fault \in BOOLEAN :
                Serving(c) = "login" /\ call[c].st = "idle" /\ Login(c, u, p, fault)
        \/ Serving(c) = "login" /\ call[c].st = "done" /\ HandlerReturn(c)
        \/ RequestEnd(c)

SpecApp == Init /\ [][NextApp]_vars

\* AuthService.register calls one after the other, each in a request scope;
\* the lookups hit no persistence error
NextSeq ==
    \E c \in Sequential :
        \/ MwDispatch(c)
        \/ \E a \in Credentials, e \in Emails : Register(c, a[1], e, a[2], FALSE)
        \/ RegisterSave(c)
        \/ \E fault \in BOOLEAN : RegisterEnd(c, fault)
        \/ HandlerReturn(c)
        \/ \E ok \in BOOLEAN : MwCommit(c, ok)
        \/ MwRollback(c)
        \/ MwFinally(c)

SpecSeq == Init /\ [][NextSeq]_vars

\* calls of a connected PostgresEngine
NextEngine ==
    \/ \E c \in Ctx, method \in Methods, to_commit \in BOOLEAN, raises \in BOOLEAN :
            PgCall(c, method, to_commit, raises)
    \/ \E s \in 1..MaxSessions : PgFinalize(s)

SpecEngine == Init /\ [][NextEngine]_vars

\* the auth router over a service that returns or raises
NextRouter ==
    \E c \in Ctx :
        \/ \E handler \in Handlers, outcome \in ServiceOutcomes :
                RouterCall(c, handler, outcome)
        \/ RouterRespond(c)
        \/ RouterDone(c)

SpecRouter == Init /\ [][NextRouter]_vars

\* ------------------------------------------------------------------ claims
LogOf(s) == sessions[s].log

JustLeft(c, kind) == last[c].kind = kind

\* every handle context c holds at the moment
Held(c) ==
    ({cell[c], last[c].session} \ {None})
        \cup epoch[c].handles
        \cup {stack[c][i].session : i \in 1..Len(stack[c])}
        \cup {pend[c][i].session : i \in 1..Len(pend[c])}

\* C1: between two detaches (reset or scope exit) every get_session call of a
\* context returns one and the same handle, the one stored in its cell, and the
\* factory is invoked at most once.
C1_SessionReuse ==
    \A c \in Ctx :
        /\ Cardinality(epoch[c].handles) <= 1
        /\ epoch[c].factory <= 1
        /\ JustLeft(c, "get_session") =>
                epoch[c].handles = {last[c].session} /\ cell[c] = last[c].session

\* a get_session call that returned the handle an earlier call had created
C1_Witness ==
    \E c \in Ctx :
        /\ JustLeft(c, "get_session")
        /\ last[c].outcome = "again"
        /\ ~last[c].created
        /\ epoch[c].factory = 1

\* C2: a context never holds, in its cell, in a scope, in a pending statement
\* or as a get_session result, a session that was created for another context.
C2_SessionIsolation ==
    \A c \in Ctx : \A s \in Held(c) : sessions[s].creator = c

\* two contexts hold a session each at the same time
C2_Witness ==
    \A c \in Ctx : cell[c] # None /\ stack[c] # <<>>

\* C3: when a transaction wrapper that was entered with no current session
\* finishes (return, raise or cancellation), the session it created has been
\* closed exactly once and the cell of the context is empty.
C3_TransactionCleanup ==
    \A c \in Ctx :
        JustLeft(c, "tx") /\ last[c].created =>
            /\ Count(LogOf(last[c].session), "close") = 1
            /\ cell[c] = None

\* one wrapper has finished by return and another by raise
C3_Witness ==
    \E c, d \in Ctx :
        /\ JustLeft(c, "tx") /\ last[c].created /\ last[c].outcome = "returning"
        /\ JustLeft(d, "tx") /\ last[d].created /\ last[d].outcome = "raising"
        /\ last[d].fn = "op"

C5_RollbackBeforeClose ==
    \A c \in Ctx :
        JustLeft(c, "tx") /\ last[c].created /\ last[c].outcome = "raising" =>
            /\ Before(LogOf(last[c].session), "rollback", "close")
            /\ last[c].err \in Errors

\* C6: a transaction wrapper entered while a current session exists runs
\* against that session, does not invoke the factory, does not close the
\* session and leaves the cell holding the same handle, on return and on raise.
C6_NestedKeepsSession ==
    \A c \in Ctx :
        JustLeft(c, "tx") /\ last[c].cellBefore # None =>
            /\ last[c].session = last[c].cellBefore
            /\ last[c].made = 0
            /\ Count(LogOf(last[c].session), "close") = 0
            /\ cell[c] = last[c].cellBefore

\* nested wrappers have finished, one by return and one by raise
C6_Witness ==
    \E c, d \in Ctx :
        /\ JustLeft(c, "tx") /\ last[c].cellBefore # None
        /\ last[c].outcome = "returning"
        /\ JustLeft(d, "tx") /\ last[d].cellBefore # None
        /\ last[d].outcome = "raising"

C8_DispatchProtocol ==
    \A c \in Ctx :
        JustLeft(c, "mw") =>
            LET log == LogOf(last[c].session)
                returned == last[c].outcome = "returning"
                raised == last[c].outcome = "raising"
                commitRaised == returned /\ last[c].err # ""
            IN
                /\ Count(log, "commit") = (IF returned THEN 1 ELSE 0)
                /\ Count(log, "rollback") = (IF raised \/ commitRaised THEN 1 ELSE 0)
                /\ raised \/ commitRaised => last[c].err \in Errors
                /\ commitRaised => Before(log, "commit", "rollback")
                /\ Count(log, "close") = 1
                /\ log[Len(log)] = "close"
                /\ cell[c] = None

\* one dispatch has finished after a commit, another after a rollback
C8_Witness ==
    \E c, d \in Ctx :
        /\ JustLeft(c, "mw") /\ last[c].outcome = "returning" /\ last[c].err = ""
        /\ JustLeft(d, "mw") /\ last[d].outcome = "raising"
        /\ LogOf(last[d].session) = <<"rollback", "close">>

\* C9: when a save finds the row of an earlier save of the same email under
\* another username still in the store, the store holds exactly one row of
\* that email afterwards: username, password_hash and updated_at are those of
\* the second call, identifier and created_at those of the first.
C9_UpsertConvergence ==
    \A c \in Ctx :
        prevSave[c] # <<>> =>
            LET f == prevSave[c][1].first
                p == prevSave[c][1].second
                rows == conflict_rows(View(p.session), p.email)
            IN  f.username # p.username =>
                    /\ Cardinality(rows) = 1
                    /\ \A r \in rows :
                        /\ r.username = p.username
                        /\ r.password_hash = p.password_hash
                        /\ r.updated_at = p.now
                        /\ r.user_uuid = f.user_uuid
                        /\ r.created_at = f.created_at

\* a second save of an email has just run, with another username and hash
C9_Witness ==
    \E c \in Ctx :
        /\ prevSave[c] # <<>>
        /\ prevSave[c][1].first.username # prevSave[c][1].second.username
        /\ prevSave[c][1].first.created_at # prevSave[c][1].second.now
        /\ ret[c] # <<>>
        /\ ret[c][1].user_uuid = prevSave[c][1].first.user_uuid

\* C10: no two rows share an email, neither among the committed rows nor in
\* what any session reads.
C10_EmailUnique ==
    /\ \A r1, r2 \in db : r1.email = r2.email => r1 = r2
    /\ \A s \in Handles : \A r1, r2 \in View(s) : r1.email = r2.email => r1 = r2

\* two sessions of different contexts have saved one email and committed, and
\* one row of that email is left, inserted by one and updated by the other
C10_Witness ==
    \E s1, s2 \in Handles : \E e \in Emails :
        /\ sessions[s1].creator # sessions[s2].creator
        /\ e \in sessions[s1].saved /\ e \in sessions[s2].saved
        /\ lastSave[e] # <<>> /\ lastSave[e][1].committed
        /\ lastSave[e][1].session = s2
        /\ Cardinality(conflict_rows(db, e)) = 1
        /\ \A r \in conflict_rows(db, e) :
                r.created_at # r.updated_at /\ r.username = lastSave[e][1].username

\* C11: a register call whose username lookup returned a user ends with
\* HTTP 409, has not called save, and has left the rows written through its
\* session as they were when it started.
C11_RegisterConflict ==
    \A c \in Ctx :
        LET k == call[c] IN
        k.op = "register" /\ k.existing # <<>> /\ ~Raised(k.existing) =>
            /\ k.st = "done"
            /\ k.out = "HTTP_409_CONFLICT"
            /\ ~k.saved /\ pend[c] = <<>>
            /\ k.body = <<>>
            /\ sessions[k.session].writes = k.writes0

\* a register call has found its username among the stored users
C11_Witness ==
    \E c \in Ctx :
        /\ call[c].op = "register" /\ call[c].st = "done"
        /\ call[c].matched = 1 /\ call[c].existing # <<>>
        /\ call[c].existing[1].username = call[c].username
        /\ call[c].out = "HTTP_409_CONFLICT"

\* C12: a register call whose username was free and whose save returned None
\* ends with HTTP 500 and no payload.
C12_RegisterSaveFailure ==
    \A c \in Ctx :
        LET k == call[c] IN
        k.op = "register" /\ k.st = "done" /\ k.existing = <<>>
                /\ k.saved /\ k.user = <<>> =>
            /\ k.out = "HTTP_500_INTERNAL_SERVER_ERROR"
            /\ k.body = <<>>

\* the statement of save has failed in a register call
C12_Witness ==
    \E c \in Ctx :
        /\ call[c].op = "register" /\ call[c].st = "done"
        /\ call[c].saved /\ call[c].fault = "save" /\ call[c].user = <<>>
        /\ call[c].out = "HTTP_500_INTERNAL_SERVER_ERROR"

\* C13: the payload of a successful register has exactly the fields user_uuid,
\* username, email, created_at and updated_at, whatever keys the dict of the
\* store had, and none of its values is the password or its hash.
C13_RegisterPayload ==
    \A c \in Ctx :
        LET k == call[c] IN
        k.op = "register" /\ k.out = "RegisterResponse" =>
            /\ Len(k.body) = 1
            /\ DOMAIN k.body[1] = RegisterResponseFields
            /\ \A f \in {"username", "email"} :
                    k.body[1][f] \notin {k.password, hashpw(k.password)}
            /\ k.body[1].user_uuid = k.user[1].user_uuid
            /\ k.body[1].username = k.username /\ k.body[1].email = k.email

\* a register has succeeded on a dict of the store that carries password_hash
C13_Witness ==
    \E c \in Ctx :
        /\ call[c].op = "register" /\ call[c].out = "RegisterResponse"
        /\ "password_hash" \in DOMAIN call[c].user[1]
        /\ call[c].user[1].password_hash = hashpw(call[c].password)

\* C14: with the real repository, a login with the username and password of
\* the registration that has just succeeded returns a token whose decoded
\* user_uuid is that of the registered user.
C14_LoginRoundTrip ==
    \A c \in Ctx :
        LET k == call[c] IN
        k.op = "login" /\ k.st = "done" /\ service.user_repo = "UserRepository"
                /\ k.prev # <<>> /\ k.prev[1].username = k.username
                /\ k.prev[1].password = k.password =>
            /\ k.out = "LoginResponse"
            /\ jwt_decode(k.body[1], JWT_SECRET) # <<>>
            /\ jwt_decode(k.body[1], JWT_SECRET)[1].user_uuid = k.prev[1].user_uuid

\* C15: the token of a login that passed password verification carries the
\* user_uuid of the looked-up user and expires jwt_expires_minutes after its
\* issuance, 1440 minutes when the constructor was given none.
C15_TokenExpiry ==
    \A c \in Ctx :
        LET k == call[c] IN
        k.op = "login" /\ k.out = "LoginResponse" =>
            LET claims == jwt_decode(k.body[1], JWT_SECRET) IN
            /\ claims # <<>>
            /\ claims[1].user_uuid = k.existing[1].user_uuid
            /\ claims[1].exp = k.now +
                    (IF service.configured = None THEN 1440
                     ELSE service.configured)

\* a login has issued a token under the default lifetime, after a save had
\* moved the clock
C15_Witness ==
    \E c \in Ctx :
        /\ call[c].op = "login" /\ call[c].out = "LoginResponse"
        /\ call[c].verified
        /\ service.configured = None
        /\ call[c].now > 0
        /\ call[c].body[1].payload.exp = call[c].now + 1440

\* C16: with the real repository, a login with the username of the
\* registration that has just succeeded and another password ends with
\* HTTP 401 and no token.
C16_WrongPassword ==
    \A c \in Ctx :
        LET k == call[c] IN
        k.op = "login" /\ k.st = "done" /\ service.user_repo = "UserRepository"
                /\ k.prev # <<>> /\ k.prev[1].username = k.username
                /\ k.prev[1].password # k.password =>
            /\ k.out = "HTTP_401_UNAUTHORIZED"
            /\ k.body = <<>>

\* C17: a login with a username that no stored user has ends with HTTP 404,
\* without password verification and without a token.
C17_UnknownUser ==
    \A c \in Ctx :
        LET k == call[c] IN
        k.op = "login" /\ k.matched = 0 =>
            /\ k.st = "done"
            /\ k.out = "HTTP_404_NOT_FOUND"
            /\ ~k.verified
            /\ k.body = <<>>

\* a login has looked up, without a storage error, a username that none of
\* the stored users has
C17_Witness ==
    \E c \in Ctx :
        /\ call[c].op = "login" /\ call[c].st = "done"
        /\ call[c].matched = 0 /\ call[c].fault = ""
        /\ View(call[c].session) # {}
        /\ call[c].out = "HTTP_404_NOT_FOUND"

\* C18: when the statement of save or of get_by_username raises
\* SQLAlchemyError the method returns None: no repository call hands an
\* exception to the service and no service call ends with SQLAlchemyError.
C18_StorageErrorContained ==
    \A c \in Ctx :
        LET k == call[c] IN
        /\ ~Raised(ret[c])
        /\ k.out # "SQLAlchemyError"
        /\ k.fault = "lookup" => k.existing = <<>>
        /\ k.fault = "save" => k.user = <<>> /\ ret[c] = <<>>

\* the statement of get_by_username has failed in a login that had a user to
\* find
C18_Witness ==
    \E c \in Ctx :
        /\ call[c].op = "login" /\ call[c].fault = "lookup"
        /\ call[c].matched = 1
        /\ call[c].existing = <<>> /\ ret[c] = <<>>

\* C19: the value get_by_username returns when its statement raised is not
\* the value it returns when no row matches.
C19_FailureDistinct ==
    \A c \in Ctx :
        call[c].op # "" /\ call[c].fault = "lookup" =>
            call[c].existing # NotFound

\* C20: a service call whose username lookup met a storage error ends with
\* HTTP 500: a login does not end with HTTP 404, a register calls no save and
\* reports no success.
C20_LookupErrorSurfaced ==
    \A c \in Ctx :
        LET k == call[c] IN
        k.op # "" /\ k.fault = "lookup" =>
            /\ k.st = "done"
            /\ k.out = "HTTP_500_INTERNAL_SERVER_ERROR"
            /\ ~k.saved

\* C26: a unit of work (a context) never has more than one session that its
\* factory calls created and that has not been closed.
C26_OneOpenSession ==
    \A c \in Ctx :
        Cardinality({s \in Handles : sessions[s].creator = c
                                     /\ Count(LogOf(s), "close") = 0}) <= 1

\* C21: the response of a handler has one status: register_handler answers 409
\* to UserAlreadyExistsError and 500 to every other AuthError; login_handler
\* answers 404 to UserNotFoundError, 401 to InvalidPasswordError and 500 to
\* every other AuthError.
C21_RouterStatus ==
    \A c \in Ctx :
        LET k == call[c] IN
        k.op \in Handlers /\ k.st = "done" /\ k.out \in AuthErrors =>
            k.status =
                IF k.op = "register_handler"
                THEN IF k.out = "UserAlreadyExistsError" THEN "HTTP_409_CONFLICT"
                     ELSE "HTTP_500_INTERNAL_SERVER_ERROR"
                ELSE IF k.out = "UserNotFoundError" THEN "HTTP_404_NOT_FOUND"
                     ELSE IF k.out = "InvalidPasswordError"
                          THEN "HTTP_401_UNAUTHORIZED"
                     ELSE "HTTP_500_INTERNAL_SERVER_ERROR"

\* one handler has answered a specific error while the other answered an
\* AuthError that it has no specific clause for
C21_Witness ==
    \E c, d \in Ctx :
        /\ call[c].op = "register_handler" /\ call[c].st = "done"
        /\ call[c].out = "UserAlreadyExistsError"
        /\ call[c].status = "HTTP_409_CONFLICT"
        /\ call[d].op = "login_handler" /\ call[d].st = "done"
        /\ call[d].out = "UserAlreadyExistsError"
        /\ call[d].status = "HTTP_500_INTERNAL_SERVER_ERROR"

\* C22: when a store operation of a request under TxMiddleware has hit a
\* persistence error, the session of the request has been rolled back, has
\* never been committed and has been closed when dispatch is left.
C22_RollbackOnStoreError ==
    \A c \in Ctx :
        JustLeft(c, "mw") /\ last[c].session # None
            /\ call[c].hit = last[c].session =>
                /\ Count(LogOf(last[c].session), "rollback") >= 1
                /\ Count(LogOf(last[c].session), "commit") = 0
                /\ Count(LogOf(last[c].session), "close") >= 1

\* C23: nothing keeps two concurrent register calls with one username and
\* different emails from both succeeding: when both have, their two rows of
\* that username stand side by side once both sessions are committed.
C23_UsernameRace ==
    \A c, d \in Ctx :
        LET k == call[c]
            m == call[d]
        IN  c # d /\ Registered(k) # <<>> /\ Registered(m) # <<>>
                /\ k.username = m.username /\ k.email # m.email =>
                Cardinality(select_by_username(
                    Apply(Apply(db, sessions[k.session].writes),
                          sessions[m.session].writes), k.username)) >= 2

\* two persisted users share one username
C23_Witness ==
    \E r1, r2 \in db :
        r1.user_uuid # r2.user_uuid /\ r1.username = r2.username
            /\ r1.email # r2.email

\* C24: when a scope that created its session is left by a cancellation,
\* wherever the task was suspended, the session has been closed and the
\* context no longer holds it.
C24_CancelReleases ==
    \A c \in Ctx :
        (JustLeft(c, "tx") \/ JustLeft(c, "mw")) /\ last[c].created
            /\ last[c].outcome = "cancelled" =>
                /\ Count(LogOf(last[c].session), "close") >= 1
                /\ cell[c] # last[c].session

\* C25: when the application built by create_app has answered a request,
\* every session the factory made for it has been closed.
C25_RequestReleasesSessions ==
    \A c \in Ctx :
        JustLeft(c, "req") =>
            \A s \in Handles :
                sessions[s].creator = c => Count(LogOf(s), "close") >= 1

\* C27: a POST /auth/register of that application enters the route function,
\* which calls AuthService.register, and the request returns its result.
C27_RegisterRouteCalls ==
    \A c \in Ctx :
        /\ \A i \in 1..Len(stack[c]) :
                stack[c][i].kind = "tx" /\ stack[c][i].fn = "register" =>
                    stack[c][i].err # "TypeError"
        /\ JustLeft(c, "req") /\ last[c].fn = "register" =>
                last[c].outcome = "returning"

\* C28: a register call without persistence error, for an email whose row
\* carries another username while no row carries the new username, succeeds;
\* afterwards one row has that email, with the new username and the hash of the
\* new password, the identifier and created_at of the old row, and no row
\* carries the old username.
C28_RegisterRenames ==
    \A c \in Ctx :
        LET k == call[c] IN
        k.op = "register" /\ k.st = "done" /\ k.fault = "" =>
            LET before == Apply(db, k.writes0)
                after == Apply(db, sessions[k.session].writes)
                old == {r \in before : r.email = k.email}
                new == {r \in after : r.email = k.email}
            IN  /\ \E o \in old : o.username # k.username
                /\ select_by_username(before, k.username) = {}
                =>  /\ k.out = "RegisterResponse"
                    /\ Cardinality(new) = 1
                    /\ \A r \in new :
                        /\ r.username = k.username
                        /\ r.password_hash = hashpw(k.password)
                        /\ \E o \in old : r.user_uuid = o.user_uuid
                                          /\ r.created_at = o.created_at
                    /\ \A o \in old : select_by_username(after, o.username) = {}

\* a register call has just renamed the committed row of its email
C28_Witness ==
    \E c \in Ctx :
        LET k == call[c] IN
        /\ k.op = "register" /\ k.st = "done" /\ k.fault = ""
        /\ k.out = "RegisterResponse"
        /\ \E o \in db :
            /\ o.email = k.email /\ o.username # k.username
            /\ \E r \in sessions[k.session].writes :
                r.user_uuid = o.user_uuid /\ r.username = k.username

\* C29: when register calls run one after the other and no lookup hits a
\* persistence error, no two rows share a username, neither among the
\* committed rows nor in what a session reads.
C29_UsernameUnique ==
    /\ \A r1, r2 \in db : r1.username = r2.username => r1 = r2
    /\ \A s \in Handles :
        \A r1, r2 \in View(s) : r1.username = r2.username => r1 = r2

\* a renamed row has been committed
C29_Witness ==
    \E r \in db : r.created_at # r.updated_at /\ lastSave[r.email] # <<>>
        /\ lastSave[r.email][1].committed
        /\ lastSave[r.email][1].username = r.username

\* C30: when a call of execute, select or select_one that found no current
\* session returns, the session it opened has been closed and the context
\* variable holds no session.
C30_EngineReleases ==
    \A c \in Ctx :
        JustLeft(c, "pg") /\ last[c].cellBefore = None =>
            /\ Count(LogOf(last[c].session), "close") >= 1
            /\ cell[c] = None

====
